---- MODULE Spec2Model ----
(***************************************************************************)
(* The storage layer and transaction execution of the namespace-leasing    *)
(* key-value ledger (package chain).  The database is one sorted map from  *)
(* byte-string keys to values; keys are built exactly as the key codec     *)
(* builds them, byte by byte, and are compared as bytes.Compare does.      *)
(***************************************************************************)
EXTENDS Integers, Sequences, FiniteSets, TLC

VARIABLES db, now, last

vars == <<db, now, last>>

(***************************************************************************)
(* Bounds of the model.                                                    *)
(***************************************************************************)
\* block times are the multiples k * TimeStep, k in 0..MaxTick
MaxTick == 2
TimeStep == 128
\* the genesis claim reward window (seconds)
ClaimReward == 192
\* the maximum value size and the size of one rent unit, scaled down
MaxValueLength == 2
ValueUnitLength == 2
\* the largest limit PruneNext is called with
MaxLimit == 2
\* the most value records the store holds at once
MaxRecords == 2

(***************************************************************************)
(* Program constants.                                                      *)
(***************************************************************************)
infoPrefix == 2
keyPrefix == 3
expiryPrefix == 4
pruningPrefix == 5
shortIDLen == 20
specificTimeKeyLen == 2 + 8 + 1 + shortIDLen
AddressLength == 20
\* parser.Delimiter, the byte '/'
Delimiter == 47
\* one byte holds 256 values
ByteBase == 256

Nil == <<>>

(***************************************************************************)
(* Inputs.                                                                 *)
(***************************************************************************)
Times == {k * TimeStep : k \in 0..MaxTick}
Senders == {1, 2}
ZeroAddress == 0
\* "f": a well-formed prefix text
GoodPrefixes == {<<102>>}
\* "f/": a prefix text with a trailing delimiter
BadPrefix == <<102, 47>>
\* twenty bytes 'a': has the shape of an address, and is the address of no sender
AddrPrefix == [i \in 1..AddressLength |-> 97]
GoodKeys == {<<104>>, <<105>>}
\* "h/": fails key-format validation
BadKey == <<104, 47>>
Keys == GoodKeys \cup {BadKey}
Rep(n) == [i \in 1..n |-> 119]
\* the empty value (a delete), a one-byte value, a value of the maximum size,
\* and a value one byte too long
Values == {Rep(0), Rep(1), Rep(MaxValueLength), Rep(MaxValueLength + 1)}

(***************************************************************************)
(* Bytes.                                                                  *)
(***************************************************************************)
Min(S) == CHOOSE x \in S : \A y \in S : x <= y

\* bytes.Compare: -1, 0 or 1 by byte-lexicographic order
Compare(a, b) ==
  LET n == IF Len(a) < Len(b) THEN Len(a) ELSE Len(b)
      diff == {i \in 1..n : a[i] # b[i]}
  IN IF diff = {}
     THEN (IF Len(a) < Len(b) THEN -1 ELSE IF Len(a) > Len(b) THEN 1 ELSE 0)
     ELSE (IF a[Min(diff)] < b[Min(diff)] THEN -1 ELSE 1)

\* bytes.HasPrefix
HasBytesPrefix(s, p) == Len(s) >= Len(p) /\ SubSeq(s, 1, Len(p)) = p

\* binary.LittleEndian.PutUint64 into n bytes: least significant byte first
RECURSIVE LittleEndianBytes(_, _)
LittleEndianBytes(t, n) ==
  IF n = 0 THEN <<>> ELSE <<t % ByteBase>> \o LittleEndianBytes(t \div ByteBase, n - 1)

PutUint64LE(t) == LittleEndianBytes(t, 8)

\* binary.LittleEndian.Uint64: the value of the bytes b[i..], least significant first
RECURSIVE Uint64LEFrom(_, _)
Uint64LEFrom(b, i) ==
  IF i > Len(b) THEN 0 ELSE b[i] + ByteBase * Uint64LEFrom(b, i + 1)

Uint64LE(b) == Uint64LEFrom(b, 1)

\* the eight bytes PutUint64 writes for math.MaxInt64 = 2^63 - 1
MaxInt64LE == [i \in 1..8 |-> IF i < 8 THEN ByteBase - 1 ELSE (ByteBase \div 2) - 1]

\* Go's integer division truncates toward zero
GoDiv(a, b) ==
  IF (a >= 0) = (b > 0)
  THEN (IF a >= 0 THEN a ELSE -a) \div (IF b >= 0 THEN b ELSE -b)
  ELSE -((IF a >= 0 THEN a ELSE -a) \div (IF b >= 0 THEN b ELSE -b))

(***************************************************************************)
(* The sorted store (memdb): get, put, delete, has, iterate from a key.    *)
(***************************************************************************)
Put(d, k, v) == [x \in (DOMAIN d) \cup {k} |-> IF x = k THEN v ELSE d[x]]
Delete(d, k) == [x \in (DOMAIN d) \ {k} |-> d[x]]
Has(d, k) == k \in DOMAIN d

RECURSIVE SetToSeq(_)
SetToSeq(S) ==
  IF S = {} THEN <<>>
  ELSE LET x == CHOOSE y \in S : \A z \in S : Compare(y, z) <= 0
       IN <<x>> \o SetToSeq(S \ {x})

\* db.NewIteratorWithStart: the keys >= start, ascending, as of the call
NewIteratorWithStart(d, start) ==
  SetToSeq({k \in DOMAIN d : Compare(start, k) <= 0})

\* database.ClearPrefix: delete every key that starts with p
ClearPrefix(d, p) == [x \in {k \in DOMAIN d : ~HasBytesPrefix(k, p)} |-> d[x]]

(***************************************************************************)
(* Key codec.                                                              *)
(***************************************************************************)
PrefixInfoKey(prefix) == <<infoPrefix, Delimiter>> \o prefix

\* hashing.ComputeHash160 is a cryptographic hash; it is modelled by a
\* collision-free stand-in of the same fixed width: the input padded with
\* zero bytes (every hashed input of the model is at most shortIDLen long).
ComputeHash160(r) ==
  [i \in 1..shortIDLen |-> IF i <= Len(r) THEN r[i] ELSE 0]

RawPrefix(prefix, blockTime) ==
  ComputeHash160(prefix \o <<Delimiter>> \o PutUint64LE(blockTime))

ShortEmpty == [i \in 1..shortIDLen |-> 0]

PrefixValueKey(rprefix, key) ==
  <<keyPrefix, Delimiter>> \o rprefix \o <<Delimiter>> \o key

RangeTimeKey(p, t) == <<p, Delimiter>> \o PutUint64LE(t) \o <<Delimiter>>

specificTimeKey(p, t, rprefix) ==
  <<p, Delimiter>> \o PutUint64LE(t) \o <<Delimiter>> \o rprefix

PrefixExpiryKey(expiry, rprefix) == specificTimeKey(expiryPrefix, expiry, rprefix)

PrefixPruningKey(expired, rprefix) == specificTimeKey(pruningPrefix, expired, rprefix)

extractSpecificTimeKey(k) ==
  IF Len(k) # specificTimeKeyLen
  THEN [err |-> "ErrInvalidKeyFormat", timestamp |-> -1, rprefix |-> ShortEmpty]
  ELSE [err |-> "nil",
        timestamp |-> Uint64LE(SubSeq(k, 3, 2 + 8)),
        rprefix |-> SubSeq(k, 2 + 8 + 1 + 1, Len(k))]

(***************************************************************************)
(* Prefix registry.                                                        *)
(***************************************************************************)
NoInfo == [Owner |-> ZeroAddress, Created |-> 0, LastUpdated |-> 0,
           Expiry |-> 0, Units |-> 0, RawPrefix |-> ShortEmpty]

\* a lookup that builds its key in the value family instead of the info family
GetPrefixInfo_WrongFamily(d, prefix) ==
  LET k == <<keyPrefix, Delimiter>> \o prefix
  IN IF ~Has(d, k) THEN [exists |-> FALSE, info |-> NoInfo]
     ELSE [exists |-> TRUE, info |-> d[k]]

GetPrefixInfo(d, prefix) ==
  LET k == PrefixInfoKey(prefix)
  IN IF ~Has(d, k) THEN [exists |-> FALSE, info |-> NoInfo]
     ELSE [exists |-> TRUE, info |-> d[k]]

GetValue(d, prefix, key) ==
  LET g == GetPrefixInfo(d, prefix)
  IN IF ~g.exists THEN [exists |-> FALSE, v |-> Nil]
     ELSE LET k == PrefixValueKey(g.info.RawPrefix, key)
          IN IF ~Has(d, k) THEN [exists |-> FALSE, v |-> Nil]
             ELSE [exists |-> TRUE, v |-> d[k]]

HasPrefix(d, prefix) == Has(d, PrefixInfoKey(prefix))

\* a put that re-indexes the schedule and forgets to write the record
PutPrefixInfo_NoRecordWrite(d, prefix, i, lastExpiry) ==
  LET i1 == IF i.RawPrefix = ShortEmpty
            THEN [i EXCEPT !.RawPrefix = RawPrefix(prefix, i.Created)]
            ELSE i
      d1 == IF lastExpiry >= 0
            THEN Delete(d, PrefixExpiryKey(lastExpiry, i1.RawPrefix))
            ELSE d
  IN Put(d1, PrefixExpiryKey(i1.Expiry, i1.RawPrefix), prefix)

PutPrefixInfo(d, prefix, i, lastExpiry) ==
  LET i1 == IF i.RawPrefix = ShortEmpty
            THEN [i EXCEPT !.RawPrefix = RawPrefix(prefix, i.Created)]
            ELSE i
      d1 == IF lastExpiry >= 0
            THEN Delete(d, PrefixExpiryKey(lastExpiry, i1.RawPrefix))
            ELSE d
      d2 == Put(d1, PrefixExpiryKey(i1.Expiry, i1.RawPrefix), prefix)
  IN Put(d2, PrefixInfoKey(prefix), i1)

PutPrefixKey(d, prefix, key, value) ==
  LET g == GetPrefixInfo(d, prefix)
  IN IF ~g.exists THEN [err |-> "ErrPrefixMissing", db |-> d]
     ELSE [err |-> "nil",
           db |-> Put(d, PrefixValueKey(g.info.RawPrefix, key), value)]

DeletePrefixKey(d, prefix, key) ==
  LET g == GetPrefixInfo(d, prefix)
  IN IF ~g.exists THEN [err |-> "ErrPrefixMissing", db |-> d]
     ELSE [err |-> "nil",
           db |-> Delete(d, PrefixValueKey(g.info.RawPrefix, key))]

(***************************************************************************)
(* Expiry scheduler and pruner.                                            *)
(***************************************************************************)
\* The body of ExpireNext's cursor loop, from the n-th key of the iterator.
\* d0 is the store as of the iterator's creation (cursor.Value() reads it),
\* acc.db the store being written, acc.done the keys demoted so far.
RECURSIVE ExpireLoop(_, _, _, _, _, _)
ExpireLoop(d0, keys, n, startKey, endKey, acc) ==
  IF n > Len(keys) THEN acc
  ELSE LET curKey == keys[n]
       IN IF Compare(startKey, curKey) < -1
          THEN ExpireLoop(d0, keys, n + 1, startKey, endKey, acc)
          ELSE IF Compare(curKey, endKey) > 0 THEN acc
          ELSE LET d1 == Delete(acc.db, curKey)
                   pfx == d0[curKey]
                   d2 == Delete(d1, PrefixInfoKey(pfx))
                   ex == extractSpecificTimeKey(curKey)
               IN IF ex.err # "nil"
                  THEN [err |-> ex.err, db |-> d2, done |-> acc.done]
                  ELSE ExpireLoop(d0, keys, n + 1, startKey, endKey,
                         [err |-> "nil",
                          db |-> Put(d2, PrefixPruningKey(ex.timestamp, ex.rprefix), Nil),
                          done |-> acc.done \cup {curKey}])

\* a scheduler that demotes an entry and leaves it in the schedule
RECURSIVE ExpireLoop_KeepEntry(_, _, _, _, _, _)
ExpireLoop_KeepEntry(d0, keys, n, startKey, endKey, acc) ==
  IF n > Len(keys) THEN acc
  ELSE LET curKey == keys[n]
       IN IF Compare(curKey, endKey) > 0 THEN acc
          ELSE LET d2 == Delete(acc.db, PrefixInfoKey(d0[curKey]))
                   ex == extractSpecificTimeKey(curKey)
               IN IF ex.err # "nil"
                  THEN [err |-> ex.err, db |-> d2, done |-> acc.done]
                  ELSE ExpireLoop_KeepEntry(d0, keys, n + 1, startKey, endKey,
                         [err |-> "nil",
                          db |-> Put(d2, PrefixPruningKey(ex.timestamp, ex.rprefix), Nil),
                          done |-> acc.done \cup {curKey}])

ExpireNext_KeepEntry(d, parent, current) ==
  LET startKey == RangeTimeKey(expiryPrefix, parent)
      endKey == RangeTimeKey(expiryPrefix, current)
  IN ExpireLoop_KeepEntry(d, NewIteratorWithStart(d, startKey), 1, startKey, endKey,
                          [err |-> "nil", db |-> d, done |-> {}])

\* a scheduler that clears the namespace's values at demotion
RECURSIVE ExpireLoop_ClearValues(_, _, _, _, _, _)
ExpireLoop_ClearValues(d0, keys, n, startKey, endKey, acc) ==
  IF n > Len(keys) THEN acc
  ELSE LET curKey == keys[n]
       IN IF Compare(curKey, endKey) > 0 THEN acc
          ELSE LET d1 == Delete(acc.db, curKey)
                   d2 == Delete(d1, PrefixInfoKey(d0[curKey]))
                   ex == extractSpecificTimeKey(curKey)
               IN IF ex.err # "nil"
                  THEN [err |-> ex.err, db |-> d2, done |-> acc.done]
                  ELSE ExpireLoop_ClearValues(d0, keys, n + 1, startKey, endKey,
                         [err |-> "nil",
                          db |-> ClearPrefix(
                                   Put(d2, PrefixPruningKey(ex.timestamp, ex.rprefix), Nil),
                                   PrefixValueKey(ex.rprefix, <<>>)),
                          done |-> acc.done \cup {curKey}])

ExpireNext_ClearValues(d, parent, current) ==
  LET startKey == RangeTimeKey(expiryPrefix, parent)
      endKey == RangeTimeKey(expiryPrefix, current)
  IN ExpireLoop_ClearValues(d, NewIteratorWithStart(d, startKey), 1, startKey, endKey,
                            [err |-> "nil", db |-> d, done |-> {}])

ExpireNext(d, parent, current) ==
  LET startKey == RangeTimeKey(expiryPrefix, parent)
      endKey == RangeTimeKey(expiryPrefix, current)
  IN ExpireLoop(d, NewIteratorWithStart(d, startKey), 1, startKey, endKey,
                [err |-> "nil", db |-> d, done |-> {}])

\* a pruner that consumes the queue and leaves the value records in place
RECURSIVE PruneLoop_NoClear(_, _, _, _, _, _)
PruneLoop_NoClear(keys, n, startKey, endKey, limit, acc) ==
  IF ~(n <= Len(keys) /\ acc.removals < limit) THEN acc
  ELSE LET curKey == keys[n]
       IN IF Compare(curKey, endKey) > 0 THEN acc
          ELSE PruneLoop_NoClear(keys, n + 1, startKey, endKey, limit,
                 [err |-> "nil", db |-> Delete(acc.db, curKey),
                  removals |-> acc.removals + 1])

PruneNext_NoClear(d, limit) ==
  LET startKey == RangeTimeKey(pruningPrefix, 0)
      endKey == <<pruningPrefix, Delimiter>> \o MaxInt64LE \o <<Delimiter>>
  IN PruneLoop_NoClear(NewIteratorWithStart(d, startKey), 1, startKey, endKey, limit,
                       [err |-> "nil", db |-> d, removals |-> 0])

RECURSIVE PruneLoop(_, _, _, _, _, _)
PruneLoop(keys, n, startKey, endKey, limit, acc) ==
  IF ~(n <= Len(keys) /\ acc.removals < limit) THEN acc
  ELSE LET curKey == keys[n]
       IN IF Compare(startKey, curKey) < -1
          THEN PruneLoop(keys, n + 1, startKey, endKey, limit, acc)
          ELSE IF Compare(curKey, endKey) > 0 THEN acc
          ELSE LET ex == extractSpecificTimeKey(curKey)
               IN IF ex.err # "nil"
                  THEN [err |-> ex.err, db |-> acc.db, removals |-> acc.removals]
                  ELSE PruneLoop(keys, n + 1, startKey, endKey, limit,
                         [err |-> "nil",
                          db |-> ClearPrefix(Delete(acc.db, curKey),
                                             PrefixValueKey(ex.rprefix, <<>>)),
                          removals |-> acc.removals + 1])

PruneNext(d, limit) ==
  LET startKey == RangeTimeKey(pruningPrefix, 0)
      \* RangeTimeKey(pruningPrefix, math.MaxInt64)
      endKey == <<pruningPrefix, Delimiter>> \o MaxInt64LE \o <<Delimiter>>
  IN PruneLoop(NewIteratorWithStart(d, startKey), 1, startKey, endKey, limit,
               [err |-> "nil", db |-> d, removals |-> 0])

(***************************************************************************)
(* Transaction executor.                                                   *)
(***************************************************************************)
\* the rent cost of a stored value
Units(v) == Len(v) \div ValueUnitLength + 1

\* parser.CheckKey: a key is non-empty and holds no delimiter
CheckKey(key) == Len(key) > 0 /\ \A i \in 1..Len(key) : key[i] # Delimiter

\* parser.CheckContents on a prefix text
CheckPrefix(prefix) == Len(prefix) > 0 /\ \A i \in 1..Len(prefix) : prefix[i] # Delimiter

\* the address of a sender, as prefix text
AddressOf(sender) == [i \in 1..AddressLength |-> sender]

SetTx(prefix, sender, key, value) ==
  [Prefix |-> prefix, Sender |-> sender, Key |-> key, Value |-> value]

\* the tail of updatePrefix, after the value record was written or deleted:
\* d1 is the store and i1 the record with its new Units
\* a recomputation that stores the remaining time where the expiry belongs
recomputeLease_RelativeExpiry(d1, s, blockTime, i, i1) ==
  LET timeRemaining == (i.Expiry - i.LastUpdated) * i.Units
  IN IF i1.Units = 0
     THEN [err |-> "panic", db |-> d1]
     ELSE LET newTimeRemaining == GoDiv(timeRemaining, i1.Units)
              i2 == [i1 EXCEPT !.LastUpdated = blockTime,
                               !.Expiry = newTimeRemaining]
          IN [err |-> "nil", db |-> PutPrefixInfo(d1, s.Prefix, i2, i.Expiry)]

\* a recomputation that spreads the remaining time over the units the
\* namespace held before the write
recomputeLease_OldUnits(d1, s, blockTime, i, i1) ==
  LET timeRemaining == (i.Expiry - i.LastUpdated) * i.Units
  IN IF i1.Units = 0
     THEN [err |-> "panic", db |-> d1]
     ELSE LET newTimeRemaining == IF i.Units = 0 THEN 0
                                  ELSE GoDiv(timeRemaining, i.Units)
              i2 == [i1 EXCEPT !.LastUpdated = blockTime,
                               !.Expiry = blockTime + newTimeRemaining]
          IN [err |-> "nil", db |-> PutPrefixInfo(d1, s.Prefix, i2, i.Expiry)]

recomputeLease(d1, s, blockTime, i, i1) ==
  LET timeRemaining == (i.Expiry - i.LastUpdated) * i.Units
  IN IF i1.Units = 0
     THEN [err |-> "panic", db |-> d1]   \* integer divide by zero
     ELSE LET newTimeRemaining == GoDiv(timeRemaining, i1.Units)
              i2 == [i1 EXCEPT !.LastUpdated = blockTime,
                               !.Expiry = blockTime + newTimeRemaining]
          IN [err |-> "nil", db |-> PutPrefixInfo(d1, s.Prefix, i2, i.Expiry)]

updatePrefix(d, s, blockTime, i) ==
  LET g == GetValue(d, s.Prefix, s.Key)
  IN IF Len(s.Value) = 0
     THEN IF ~g.exists THEN [err |-> "ErrKeyMissing", db |-> d]
          ELSE LET i1 == [i EXCEPT !.Units = i.Units - Units(g.v)]
                   r == DeletePrefixKey(d, s.Prefix, s.Key)
               IN IF r.err # "nil" THEN r
                  ELSE recomputeLease(r.db, s, blockTime, i, i1)
     ELSE LET i0 == IF g.exists THEN [i EXCEPT !.Units = i.Units - Units(g.v)] ELSE i
              i1 == [i0 EXCEPT !.Units = i0.Units + Units(s.Value)]
              r == PutPrefixKey(d, s.Prefix, s.Key, s.Value)
          IN IF r.err # "nil" THEN r
             ELSE recomputeLease(r.db, s, blockTime, i, i1)

\* an Execute that tests the lease before the owner
SetTxExecute_ExpiryBeforeOwner(d, s, blockTime) ==
  IF ~CheckKey(s.Key) THEN [err |-> "ErrInvalidContents", db |-> d]
  ELSE IF Len(s.Value) > MaxValueLength THEN [err |-> "ErrValueTooBig", db |-> d]
  ELSE LET g == GetPrefixInfo(d, s.Prefix)
       IN IF ~g.exists THEN [err |-> "ErrPrefixMissing", db |-> d]
          ELSE IF g.info.Expiry < blockTime THEN [err |-> "ErrPrefixExpired", db |-> d]
          ELSE IF g.info.Owner # s.Sender THEN [err |-> "ErrUnauthorized", db |-> d]
          ELSE updatePrefix(d, s, blockTime, g.info)

\* an Execute that writes the value record before it tests the lease
SetTxExecute_WriteBeforeExpiry(d, s, blockTime) ==
  IF ~CheckKey(s.Key) THEN [err |-> "ErrInvalidContents", db |-> d]
  ELSE IF Len(s.Value) > MaxValueLength THEN [err |-> "ErrValueTooBig", db |-> d]
  ELSE LET g == GetPrefixInfo(d, s.Prefix)
       IN IF ~g.exists THEN [err |-> "ErrPrefixMissing", db |-> d]
          ELSE IF g.info.Owner # s.Sender THEN [err |-> "ErrUnauthorized", db |-> d]
          ELSE LET w == IF Len(s.Value) = 0 THEN [err |-> "nil", db |-> d]
                        ELSE PutPrefixKey(d, s.Prefix, s.Key, s.Value)
               IN IF g.info.Expiry < blockTime
                  THEN [err |-> "ErrPrefixExpired", db |-> w.db]
                  ELSE updatePrefix(d, s, blockTime, g.info)

SetTxExecute(d, s, blockTime) ==
  IF ~CheckKey(s.Key) THEN [err |-> "ErrInvalidContents", db |-> d]
  ELSE IF Len(s.Value) > MaxValueLength THEN [err |-> "ErrValueTooBig", db |-> d]
  ELSE LET g == GetPrefixInfo(d, s.Prefix)
       IN IF ~g.exists THEN [err |-> "ErrPrefixMissing", db |-> d]
          ELSE IF g.info.Owner # s.Sender THEN [err |-> "ErrUnauthorized", db |-> d]
          ELSE IF g.info.Expiry < blockTime THEN [err |-> "ErrPrefixExpired", db |-> d]
          ELSE updatePrefix(d, s, blockTime, g.info)

ClaimTxExecute(d, prefix, sender, blockTime) ==
  IF Len(prefix) = AddressLength /\ prefix # AddressOf(sender)
  THEN [err |-> "ErrAddressMismatch", db |-> d]
  ELSE LET g == GetPrefixInfo(d, prefix)
       IN IF g.exists /\ g.info.Expiry >= blockTime
          THEN [err |-> "ErrPrefixNotExpired", db |-> d]
          ELSE LET newInfo == [Owner |-> sender, Created |-> blockTime,
                               LastUpdated |-> blockTime,
                               Expiry |-> blockTime + ClaimReward,
                               Units |-> 0, RawPrefix |-> ShortEmpty]
                   lastExpiry == IF g.exists THEN g.info.Expiry ELSE -1
               IN [err |-> "nil",
                   db |-> PutPrefixInfo(d, prefix, newInfo, lastExpiry)]

\* a transfer that looks the namespace up before it validates the prefix text
MoveTxExecute_LookupFirst(d, prefix, to, sender, blockTime) ==
  IF to = ZeroAddress THEN [err |-> "ErrNonActionable", db |-> d]
  ELSE LET g == GetPrefixInfo(d, prefix)
       IN IF ~g.exists THEN [err |-> "ErrSpaceMissing", db |-> d]
          ELSE IF ~CheckPrefix(prefix) THEN [err |-> "ErrInvalidContents", db |-> d]
          ELSE IF g.info.Owner # sender THEN [err |-> "ErrUnauthorized", db |-> d]
          ELSE IF g.info.Expiry < blockTime THEN [err |-> "ErrPrefixExpired", db |-> d]
          ELSE [err |-> "nil",
                db |-> PutPrefixInfo(d, prefix, [g.info EXCEPT !.Owner = to], -1)]

MoveTxExecute(d, prefix, to, sender, blockTime) ==
  IF to = ZeroAddress THEN [err |-> "ErrNonActionable", db |-> d]
  ELSE IF ~CheckPrefix(prefix) THEN [err |-> "ErrInvalidContents", db |-> d]
  ELSE LET g == GetPrefixInfo(d, prefix)
       IN IF ~g.exists THEN [err |-> "ErrSpaceMissing", db |-> d]
          ELSE IF g.info.Owner # sender THEN [err |-> "ErrUnauthorized", db |-> d]
          ELSE IF g.info.Expiry < blockTime THEN [err |-> "ErrPrefixExpired", db |-> d]
          ELSE [err |-> "nil",
                db |-> PutPrefixInfo(d, prefix, [g.info EXCEPT !.Owner = to], -1)]

(***************************************************************************)
(* The state machine.  The ordering layer makes one call at a time: a      *)
(* transaction at the current block time, the scheduler at a block         *)
(* boundary, or the pruner.  last holds the call in progress, with its     *)
(* arguments and what it returned, until Return hands control back; a      *)
(* re-scan (ExpireNext called again right after ExpireNext) keeps the      *)
(* record of the first call while the second one runs.                     *)
(***************************************************************************)
\* the keys of one family, and the fields of a key
InfoKeys(d) == {k \in DOMAIN d : k[1] = infoPrefix}
ValueKeys(d) == {k \in DOMAIN d : k[1] = keyPrefix}
ExpiryKeys(d) == {k \in DOMAIN d : k[1] = expiryPrefix}
PruningKeys(d) == {k \in DOMAIN d : k[1] = pruningPrefix}
PrefixOf(k) == SubSeq(k, 3, Len(k))
TimeOf(k) == extractSpecificTimeKey(k).timestamp
RawOf(k) == extractSpecificTimeKey(k).rprefix

Idle ==
  [op |-> "idle", err |-> "nil", pfx |-> Nil, snd |-> 0, key |-> Nil, val |-> Nil,
   to |-> 0, parent |-> 0, cur |-> 0, done |-> {}, n |-> 0, limit |-> 0,
   cleared |-> 0, ret |-> <<>>, fail |-> 0, withPrefix |-> FALSE, end |-> <<>>]

Init ==
  /\ db = [k \in {} |-> Nil]
  /\ now = 0
  /\ last = Idle

Claim(prefix, sender) ==
  /\ last.op = "idle"
  /\ LET r == ClaimTxExecute(db, prefix, sender, now)
     IN /\ db' = r.db
        /\ last' = [Idle EXCEPT !.op = "Claim", !.err = r.err, !.pfx = prefix,
                                !.snd = sender]
  /\ UNCHANGED now

Set(prefix, sender, key, value) ==
  /\ last.op = "idle"
  /\ LET r == SetTxExecute(db, SetTx(prefix, sender, key, value), now)
     IN /\ Cardinality(ValueKeys(r.db)) <= MaxRecords
        /\ db' = r.db
        /\ last' = [Idle EXCEPT !.op = "Set", !.err = r.err, !.pfx = prefix,
                                !.snd = sender, !.key = key, !.val = value]
  /\ UNCHANGED now

Move(prefix, to, sender) ==
  /\ last.op = "idle"
  /\ LET r == MoveTxExecute(db, prefix, to, sender, now)
     IN /\ db' = r.db
        /\ last' = [Idle EXCEPT !.op = "Move", !.err = r.err, !.pfx = prefix,
                                !.snd = sender, !.to = to]
  /\ UNCHANGED now

\* the block boundary: the block time moves to current and the scheduler
\* is advanced from parent to current
Expire(parent, current) ==
  /\ last.op \in {"idle", "Expire"}
  /\ parent <= current
  /\ now <= current
  /\ LET r == ExpireNext(db, parent, current)
     IN /\ db' = r.db
        /\ last' = [Idle EXCEPT !.op = "Expire", !.err = r.err, !.parent = parent,
                                !.cur = current, !.done = r.done]
  /\ now' = current

\* PruneNext is declared "(err error)": the removals counter (kept in n) is
\* local to the call and nothing but the error is handed back (ret);
\* cleared is the number of value records the call deleted
Prune(limit) ==
  /\ last.op = "idle"
  /\ LET r == PruneNext(db, limit)
     IN /\ db' = r.db
        /\ last' = [Idle EXCEPT !.op = "Prune", !.err = r.err, !.n = r.removals,
                                !.limit = limit, !.ret = <<>>,
                                !.cleared = Cardinality(DOMAIN db \ DOMAIN r.db)
                                              - r.removals]
  /\ UNCHANGED now

\* the call returns to the ordering layer; a divide-by-zero panic does not
\* return, it ends the process, and a store that refused a write is closed:
\* no call is made on it again
Return ==
  /\ last.op # "idle"
  /\ last.err \notin {"panic", "ErrClosed"}
  /\ last' = Idle
  /\ UNCHANGED <<db, now>>

Next ==
  \/ \E p \in GoodPrefixes \cup {AddrPrefix}, s \in Senders : Claim(p, s)
  \/ \E p \in GoodPrefixes, s \in Senders, k \in Keys, v \in Values : Set(p, s, k, v)
  \/ \E p \in GoodPrefixes \cup {BadPrefix}, t \in Senders \cup {ZeroAddress},
        s \in Senders : Move(p, t, s)
  \/ \E parent \in Times, current \in Times : Expire(parent, current)
  \/ \E limit \in 1..MaxLimit : Prune(limit)
  \/ Return

Spec == Init /\ [][Next]_vars

(***************************************************************************)
(* Properties.                                                             *)
(***************************************************************************)
\* the stored record of a prefix, read straight from the store
Stored(d, p) == d[<<infoPrefix, Delimiter>> \o p]
IsStored(d, p) == (<<infoPrefix, Delimiter>> \o p) \in DOMAIN d

\* C1: index consistency.  Every stored PrefixInfo has exactly one
\* expiry-schedule entry, keyed (Expiry, RawPrefix) and holding the prefix
\* text, and every expiry-schedule entry is the entry of a stored PrefixInfo
\* with that Expiry and RawPrefix.
IndexConsistent ==
  /\ \A k \in InfoKeys(db) :
       /\ {e \in ExpiryKeys(db) : db[e] = PrefixOf(k) \/ RawOf(e) = db[k].RawPrefix}
            = {PrefixExpiryKey(db[k].Expiry, db[k].RawPrefix)}
       /\ db[PrefixExpiryKey(db[k].Expiry, db[k].RawPrefix)] = PrefixOf(k)
  /\ \A e \in ExpiryKeys(db) :
       /\ IsStored(db, db[e])
       /\ Stored(db, db[e]).Expiry = TimeOf(e)
       /\ Stored(db, db[e]).RawPrefix = RawOf(e)

\* C2: a Claim of a prefix whose PrefixInfo exists with Expiry >= blockTime
\* fails with PrefixNotExpired for every sender, the owner included, and
\* leaves the whole store unchanged.
ClaimOfActiveRejected ==
  [][(last'.op = "Claim" /\ IsStored(db, last'.pfx)
        /\ Stored(db, last'.pfx).Expiry >= now)
       => (last'.err = "ErrPrefixNotExpired" /\ db' = db)]_vars

\* the owner's own claim of its active prefix has just been rejected
ClaimOfActiveRejectedWitness ==
  /\ last.op = "Claim"
  /\ last.err = "ErrPrefixNotExpired"
  /\ IsStored(db, last.pfx)
  /\ Stored(db, last.pfx).Owner = last.snd
  /\ Stored(db, last.pfx).Expiry >= now

\* C3: once the scheduler has been advanced past the old expiry (the record
\* is gone, or its Expiry is before the block time), a Claim by any sender
\* succeeds and stores Owner = sender, Created = LastUpdated = blockTime,
\* Expiry = blockTime + ClaimReward, Units = 0.
ReclaimSucceeds ==
  [][(last'.op = "Claim" /\ last'.pfx \in GoodPrefixes
        /\ (~IsStored(db, last'.pfx) \/ Stored(db, last'.pfx).Expiry < now))
       => /\ last'.err = "nil"
          /\ IsStored(db', last'.pfx)
          /\ Stored(db', last'.pfx).Owner = last'.snd
          /\ Stored(db', last'.pfx).Created = now
          /\ Stored(db', last'.pfx).LastUpdated = now
          /\ Stored(db', last'.pfx).Expiry = now + ClaimReward
          /\ Stored(db', last'.pfx).Units = 0]_vars

\* a prefix whose earlier incarnation was demoted has just been claimed again
ReclaimSucceedsWitness ==
  /\ last.op = "Claim"
  /\ last.err = "nil"
  /\ now > 0
  /\ IsStored(db, last.pfx)
  /\ Stored(db, last.pfx).Owner = last.snd
  /\ Stored(db, last.pfx).Created = now
  /\ \E k \in PruningKeys(db) : RawOf(k) # Stored(db, last.pfx).RawPrefix

\* the value record of (prefix, key), read straight from the store
ValueKeyOf(d, p, k) ==
  <<keyPrefix, Delimiter>> \o Stored(d, p).RawPrefix \o <<Delimiter>> \o k
HasValue(d, p, k) == IsStored(d, p) /\ ValueKeyOf(d, p, k) \in DOMAIN d

\* the call being made is a Set, by the owner, on a stored unexpired prefix,
\* with a well-formed key and a value within the maximum size
OwnerSetCall ==
  /\ last'.op = "Set"
  /\ IsStored(db, last'.pfx)
  /\ Stored(db, last'.pfx).Owner = last'.snd
  /\ Stored(db, last'.pfx).Expiry >= now
  /\ last'.key \in GoodKeys
  /\ Len(last'.val) <= MaxValueLength

\* C4: set then delete round trip.  On a claimed, unexpired prefix owned by
\* the sender, a Set of a non-empty value succeeds and the value reads back;
\* a delete of a stored key succeeds and the key then reads as absent, also
\* when it is the only key of the namespace; a delete of an absent key fails
\* with KeyMissing.
SetDeleteRoundTrip ==
  [][OwnerSetCall
       => /\ (Len(last'.val) > 0) =>
               /\ last'.err = "nil"
               /\ GetValue(db', last'.pfx, last'.key)
                    = [exists |-> TRUE, v |-> last'.val]
          /\ (Len(last'.val) = 0 /\ HasValue(db, last'.pfx, last'.key)) =>
               /\ last'.err = "nil"
               /\ ~GetValue(db', last'.pfx, last'.key).exists
          /\ (Len(last'.val) = 0 /\ ~HasValue(db, last'.pfx, last'.key)) =>
               last'.err = "ErrKeyMissing"]_vars

\* C5: executing a Set or a Delete never divides by zero.
NoDivideByZero == last.err # "panic"

\* the call being made is a Set by a sender that is not the Owner of the
\* stored PrefixInfo
StrangerSetCall ==
  /\ last'.op = "Set"
  /\ IsStored(db, last'.pfx)
  /\ Stored(db, last'.pfx).Owner # last'.snd

\* C6, as claimed: a Set by a sender that is not the Owner of an existing
\* PrefixInfo fails with Unauthorized for every key and every value.
UnauthorizedForAnyContent ==
  [][StrangerSetCall => last'.err = "ErrUnauthorized"]_vars

\* C6, amended: such a Set fails with Unauthorized when the key is well
\* formed and the value is no longer than the maximum; a malformed key
\* fails the key validation and an oversized value fails ValueTooBig
\* before the owner is looked at.
UnauthorizedAfterValidation ==
  [][StrangerSetCall
       => /\ (last'.key \in GoodKeys /\ Len(last'.val) <= MaxValueLength)
               => last'.err = "ErrUnauthorized"
          /\ (last'.key = BadKey) => last'.err = "ErrInvalidContents"
          /\ (last'.key \in GoodKeys /\ Len(last'.val) > MaxValueLength)
               => last'.err = "ErrValueTooBig"]_vars

\* a sender that does not own the stored prefix has just been refused
UnauthorizedWitness ==
  /\ last.op = "Set"
  /\ last.err = "ErrUnauthorized"
  /\ IsStored(db, last.pfx)
  /\ Stored(db, last.pfx).Owner # last.snd

SetErrors ==
  {"ErrInvalidContents", "ErrValueTooBig", "ErrPrefixMissing", "ErrUnauthorized",
   "ErrPrefixExpired", "ErrKeyMissing"}

\* C7: whenever SetTx.Execute returns an error, the store is exactly as
\* before the call.
SetAllOrNothing ==
  [][(last'.op = "Set" /\ last'.err \in SetErrors) => db' = db]_vars

\* the owner's write to its lapsed prefix, which holds a value, was refused
SetAllOrNothingWitness ==
  /\ last.op = "Set"
  /\ last.err = "ErrPrefixExpired"
  /\ Len(last.val) > 0
  /\ IsStored(db, last.pfx)
  /\ Stored(db, last.pfx).Owner = last.snd
  /\ \E k \in GoodKeys : HasValue(db, last.pfx, k)

\* C8: after ExpireNext(parentTime, currentTime) returns without error, no
\* expiry-schedule entry with parentTime <= timestamp <= currentTime remains.
ExpireCoversRange ==
  (last.op = "Expire" /\ last.err = "nil")
    => \A e \in ExpiryKeys(db) : ~(last.parent <= TimeOf(e) /\ TimeOf(e) <= last.cur)

\* C9: after each ExpireNext call no expiry-schedule entry with a timestamp
\* earlier than the call's currentTime is left pending, also when the
\* timestamp is earlier than the call's parentTime.
NoEntrySkipped ==
  (last.op = "Expire" /\ last.err = "nil")
    => \A e \in ExpiryKeys(db) : TimeOf(e) >= last.cur

\* C10: an ExpireNext call that follows an ExpireNext call with an
\* overlapping range returns no error, demotes no (timestamp, RawPrefix) the
\* first call demoted, removes no pruning-schedule entry, creates pruning
\* entries only for the entries it demotes itself, deletes a PrefixInfo only
\* for an entry it demotes itself, and changes nothing when the range is the
\* same.
IdempotentRescan ==
  [][(last.op = "Expire" /\ last'.op = "Expire" /\ last'.parent <= last.cur)
       => /\ last'.err = "nil"
          /\ last'.done \cap last.done = {}
          /\ last'.done \subseteq ExpiryKeys(db)
          /\ PruningKeys(db) \subseteq PruningKeys(db')
          /\ PruningKeys(db') \ PruningKeys(db)
               \subseteq {PrefixPruningKey(TimeOf(e), RawOf(e)) : e \in last'.done}
          /\ \A k \in InfoKeys(db) \ InfoKeys(db') :
               \E e \in last'.done : db[e] = PrefixOf(k)
          /\ (last'.parent = last.parent /\ last'.cur = last.cur) => db' = db]_vars

\* a call has just scanned again a range that holds an entry the call before
\* it demoted, and demoted nothing
IdempotentRescanWitness ==
  /\ last.op = "Expire"
  /\ last.err = "nil"
  /\ last.done = {}
  /\ \E k \in PruningKeys(db) : last.parent <= TimeOf(k) /\ TimeOf(k) < last.cur

\* the step PruneNext(limit) takes on a queue of N pending entries: it returns
\* nil, removes the min(limit, N) entries that come first in key order and
\* nothing else from the queue, and its counter ends at that number
PruneBatchStep ==
  last'.op = "Prune" =>
    LET pending == PruningKeys(db)
        removed == pending \ PruningKeys(db')
        m == IF last'.limit < Cardinality(pending) THEN last'.limit
             ELSE Cardinality(pending)
    IN /\ last'.err = "nil"
       /\ PruningKeys(db') \subseteq pending
       /\ Cardinality(removed) = m
       /\ \A e \in removed : \A k \in PruningKeys(db') : Compare(e, k) < 0
       /\ last'.n = m

\* the batch part of C11 on its own: every PruneNext call removes exactly
\* min(limit, N) entries, also when it continues an earlier partial call
PruneRemovesBatch == [][PruneBatchStep]_vars

\* a call with limit < N has just removed limit entries and left the rest
PruneRemovesBatchWitness ==
  /\ last.op = "Prune"
  /\ last.n = last.limit
  /\ PruningKeys(db) # {}

\* C11: with N pending pruning-schedule entries, PruneNext(limit) removes
\* exactly min(limit, N) entries and reports that number as its count; a
\* second call continues from the remaining entries, and no entry is
\* counted twice.
PruneReportsCount ==
  [][PruneBatchStep /\ (last'.op = "Prune" => last'.ret = <<last'.n>>)]_vars

\* the value records stored under a RawPrefix
ValuesUnder(d, rprefix) ==
  {k \in ValueKeys(d) : HasBytesPrefix(k, PrefixValueKey(rprefix, <<>>))}

\* every lapsed namespace has been demoted: no schedule entry with a
\* timestamp before the block time is pending
LapsedAllDemoted(d) == \A e \in ExpiryKeys(d) : TimeOf(e) >= now

\* C12: when every lapsed namespace has been demoted and a PruneNext call
\* has consumed the pruning queue to the end, no PrefixInfo is stored for a
\* lapsed namespace the call pruned, no stored PrefixInfo is lapsed, and
\* the store holds no value record under the RawPrefix of a namespace the
\* call pruned.
PrunedLeavesNothing ==
  [][(last'.op = "Prune" /\ last'.err = "nil" /\ PruningKeys(db') = {}
        /\ LapsedAllDemoted(db'))
       => /\ \A e \in PruningKeys(db) :
               /\ ValuesUnder(db', RawOf(e)) = {}
               /\ TimeOf(e) < now =>
                    \A k \in InfoKeys(db') : db'[k].RawPrefix # RawOf(e)
          /\ \A k \in InfoKeys(db') : db'[k].Expiry >= now]_vars

\* a PruneNext call has just consumed the queue to the end and deleted the
\* value records of a demoted namespace, with no lapsed namespace pending
PrunedLeavesNothingWitness ==
  /\ last.op = "Prune"
  /\ last.err = "nil"
  /\ last.n >= 1
  /\ last.cleared >= 1
  /\ PruningKeys(db) = {}
  /\ LapsedAllDemoted(db)
  /\ now > 0

(***************************************************************************)
(* The storage layer called directly.  The calls below are the ones the    *)
(* registry, the scheduler and the range reader offer to their callers;    *)
(* the store may refuse a write (a closed database), which the code hands  *)
(* back as the error of the call.                                          *)
(***************************************************************************)
\* the most store writes of one call before the one that is refused
MaxFault == 3
\* a limit handed to WithRangeLimit
MaxRangeLimit == 1

\* the keys a range starts or ends at: "", "h", "i", "j"
RangeKeys == {<<>>, <<104>>, <<105>>, <<106>>}

\* PutPrefixInfo when the store refuses the fail-th write of the call
\* (fail = 0: every write succeeds)
PutPrefixInfoFault(d, prefix, i, lastExpiry, fail) ==
  LET i1 == IF i.RawPrefix = ShortEmpty
            THEN [i EXCEPT !.RawPrefix = RawPrefix(prefix, i.Created)]
            ELSE i
      w0 == IF lastExpiry >= 0 THEN 1 ELSE 0
  IN IF lastExpiry >= 0 /\ fail = 1 THEN [err |-> "ErrClosed", db |-> d]
     ELSE LET d1 == IF lastExpiry >= 0
                    THEN Delete(d, PrefixExpiryKey(lastExpiry, i1.RawPrefix))
                    ELSE d
          IN IF fail = w0 + 1 THEN [err |-> "ErrClosed", db |-> d1]
             ELSE LET d2 == Put(d1, PrefixExpiryKey(i1.Expiry, i1.RawPrefix), prefix)
                  IN IF fail = w0 + 2 THEN [err |-> "ErrClosed", db |-> d2]
                     ELSE [err |-> "nil", db |-> Put(d2, PrefixInfoKey(prefix), i1)]

\* ExpireNext's cursor loop when the store refuses the fail-th write of the
\* call; acc.w counts the writes made so far
RECURSIVE ExpireLoopFault(_, _, _, _, _, _, _)
ExpireLoopFault(d0, keys, n, startKey, endKey, fail, acc) ==
  IF n > Len(keys) THEN acc
  ELSE LET curKey == keys[n]
       IN IF Compare(startKey, curKey) < -1
          THEN ExpireLoopFault(d0, keys, n + 1, startKey, endKey, fail, acc)
          ELSE IF Compare(curKey, endKey) > 0 THEN acc
          ELSE IF fail = acc.w + 1 THEN [acc EXCEPT !.err = "ErrClosed"]
          ELSE LET d1 == Delete(acc.db, curKey)
                   pfx == d0[curKey]
               IN IF fail = acc.w + 2
                  THEN [acc EXCEPT !.err = "ErrClosed", !.db = d1]
                  ELSE LET d2 == Delete(d1, PrefixInfoKey(pfx))
                           ex == extractSpecificTimeKey(curKey)
                       IN IF ex.err # "nil"
                          THEN [acc EXCEPT !.err = ex.err, !.db = d2]
                          ELSE IF fail = acc.w + 3
                          THEN [acc EXCEPT !.err = "ErrClosed", !.db = d2]
                          ELSE ExpireLoopFault(d0, keys, n + 1, startKey, endKey, fail,
                                 [err |-> "nil",
                                  db |-> Put(d2, PrefixPruningKey(ex.timestamp,
                                                                  ex.rprefix), Nil),
                                  done |-> acc.done \cup {curKey},
                                  w |-> acc.w + 3])

ExpireNextFault(d, parent, current, fail) ==
  LET startKey == RangeTimeKey(expiryPrefix, parent)
      endKey == RangeTimeKey(expiryPrefix, current)
  IN ExpireLoopFault(d, NewIteratorWithStart(d, startKey), 1, startKey, endKey, fail,
                     [err |-> "nil", db |-> d, done |-> {}, w |-> 0])

\* parser.GetRangeEnd: the least byte string greater than every string that
\* starts with k (drop trailing 0xff bytes, add one to the last byte left)
RECURSIVE GetRangeEnd(_)
GetRangeEnd(k) ==
  IF Len(k) = 0 THEN <<0>>
  ELSE IF k[Len(k)] < ByteBase - 1 THEN [k EXCEPT ![Len(k)] = @ + 1]
  ELSE GetRangeEnd(SubSeq(k, 1, Len(k) - 1))

\* the options of a Range call: WithPrefix(), WithRangeEnd(end) (an empty
\* end: not given) and WithRangeLimit(limit)
Op(withPrefix, end, limit) ==
  [withPrefix |-> withPrefix, rangeEnd |-> end, rangeLimit |-> limit]

\* the body of Range's cursor loop, from the n-th key of the iterator
RECURSIVE RangeLoop(_, _, _, _, _, _, _)
RangeLoop(d, keys, n, startKey, endKey, rangeLimit, kvs) ==
  IF n > Len(keys) THEN kvs
  ELSE IF rangeLimit > 0 /\ Len(kvs) = rangeLimit THEN kvs
  ELSE LET curKey == keys[n]
           formattedKey == SubSeq(curKey, 2 + shortIDLen + 1 + 1, Len(curKey))
           kv == [Key |-> formattedKey, Value |-> d[curKey]]
           comp == Compare(startKey, curKey)
       IN IF comp = 0
          THEN RangeLoop(d, keys, n + 1, startKey, endKey, rangeLimit, Append(kvs, kv))
          ELSE IF comp < -1
          THEN RangeLoop(d, keys, n + 1, startKey, endKey, rangeLimit, kvs)
          ELSE IF Len(endKey) = 0 THEN kvs
          ELSE IF Compare(curKey, endKey) >= 0 THEN kvs
          ELSE RangeLoop(d, keys, n + 1, startKey, endKey, rangeLimit, Append(kvs, kv))

Range(d, prefix, key, op) ==
  LET g == GetPrefixInfo(d, prefix)
  IN IF ~g.exists THEN [err |-> "ErrPrefixMissing", kvs |-> <<>>]
     ELSE LET startKey == PrefixValueKey(g.info.RawPrefix, key)
              rangeEnd == IF op.withPrefix THEN GetRangeEnd(startKey) ELSE op.rangeEnd
              endKey == IF Len(rangeEnd) = 0 THEN <<>>
                        ELSE IF HasBytesPrefix(rangeEnd, <<keyPrefix, Delimiter>>)
                        THEN rangeEnd
                        ELSE PrefixValueKey(g.info.RawPrefix, rangeEnd)
          IN [err |-> "nil",
              kvs |-> RangeLoop(d, NewIteratorWithStart(d, startKey), 1, startKey,
                                endKey, op.rangeLimit, <<>>)]

\* the registry put, as its callers use it: a new record (Created = the block
\* time, no earlier expiry) or a stored record re-indexed to a new Expiry
\* (the earlier Expiry is the retiring one)
PutInfo(prefix, expiry, fail) ==
  /\ last.op = "idle"
  /\ LET g == GetPrefixInfo(db, prefix)
         i == IF g.exists THEN [g.info EXCEPT !.Expiry = expiry]
              ELSE [Owner |-> 1, Created |-> now, LastUpdated |-> now,
                    Expiry |-> expiry, Units |-> 0, RawPrefix |-> ShortEmpty]
         lastExpiry == IF g.exists THEN g.info.Expiry ELSE -1
         r == PutPrefixInfoFault(db, prefix, i, lastExpiry, fail)
     IN /\ db' = r.db
        /\ last' = [Idle EXCEPT !.op = "PutInfo", !.err = r.err, !.pfx = prefix,
                                !.fail = fail]
  /\ UNCHANGED now

ExpireFault(parent, current, fail) ==
  /\ last.op = "idle"
  /\ parent <= current
  /\ now <= current
  /\ LET r == ExpireNextFault(db, parent, current, fail)
     IN /\ db' = r.db
        /\ last' = [Idle EXCEPT !.op = "Expire", !.err = r.err, !.parent = parent,
                                !.cur = current, !.done = r.done, !.fail = fail]
  /\ now' = current

PutValue(prefix, key, value) ==
  /\ last.op = "idle"
  /\ LET r == PutPrefixKey(db, prefix, key, value)
     IN /\ Cardinality(ValueKeys(r.db)) <= MaxRecords
        /\ db' = r.db
        /\ last' = [Idle EXCEPT !.op = "PutValue", !.err = r.err, !.pfx = prefix,
                                !.key = key, !.val = value]
  /\ UNCHANGED now

DeleteValue(prefix, key) ==
  /\ last.op = "idle"
  /\ LET r == DeletePrefixKey(db, prefix, key)
     IN /\ db' = r.db
        /\ last' = [Idle EXCEPT !.op = "DeleteValue", !.err = r.err, !.pfx = prefix,
                                !.key = key]
  /\ UNCHANGED now

\* GetValue hands back (nil, false, nil) when the namespace has no record
\* and when the key has none: its only errors are the store's
GetValueCall(prefix, key) ==
  /\ last.op = "idle"
  /\ LET g == GetValue(db, prefix, key)
     IN last' = [Idle EXCEPT !.op = "GetValue", !.err = "nil", !.pfx = prefix,
                             !.key = key, !.ret = <<g.v, g.exists>>]
  /\ UNCHANGED <<db, now>>

RangeCall(prefix, key, withPrefix, end, limit) ==
  /\ last.op = "idle"
  /\ LET r == Range(db, prefix, key, Op(withPrefix, end, limit))
     IN last' = [Idle EXCEPT !.op = "Range", !.err = r.err, !.pfx = prefix,
                             !.key = key, !.withPrefix = withPrefix, !.end = end,
                             !.limit = limit, !.ret = <<r.kvs>>]
  /\ UNCHANGED <<db, now>>

StoreNext ==
  \/ \E p \in GoodPrefixes, e \in Times, f \in 0..MaxFault : PutInfo(p, e, f)
  \/ \E parent \in Times, current \in Times, f \in 0..MaxFault :
        ExpireFault(parent, current, f)
  \/ \E p \in GoodPrefixes, k \in GoodKeys : PutValue(p, k, Rep(1))
  \/ \E p \in GoodPrefixes, k \in GoodKeys : DeleteValue(p, k)
  \/ \E p \in GoodPrefixes, k \in GoodKeys : GetValueCall(p, k)
  \/ \E p \in GoodPrefixes, k \in RangeKeys, wp \in BOOLEAN, e \in RangeKeys,
        n \in 0..MaxRangeLimit : RangeCall(p, k, wp, e, n)
  \/ Return

StoreSpec == Init /\ [][StoreNext]_vars

(***************************************************************************)
(* The key codec on its own: schedule keys are built for drawn timestamps  *)
(* and RawPrefixes and put into the two schedule families.                 *)
(***************************************************************************)
\* the most schedule entries the store holds at once
MaxEntries == 2

\* timestamps on both sides of a byte boundary
CodecTimes == Times \cup {t + 1 : t \in Times} \cup {ByteBase - 1}
CodecRawPrefixes == {RawPrefix(p, c) : p \in GoodPrefixes, c \in Times}

ScheduleEntry(p, t, rprefix) ==
  /\ Cardinality(DOMAIN db) < MaxEntries
  /\ db' = Put(db, specificTimeKey(p, t, rprefix), Nil)
  /\ UNCHANGED <<now, last>>

DropEntry(k) ==
  /\ k \in DOMAIN db
  /\ db' = Delete(db, k)
  /\ UNCHANGED <<now, last>>

CodecNext ==
  \/ \E p \in {expiryPrefix, pruningPrefix}, t \in CodecTimes,
        r \in CodecRawPrefixes : ScheduleEntry(p, t, r)
  \/ \E k \in DOMAIN db : DropEntry(k)

CodecSpec == Init /\ [][CodecNext]_vars

\* C13: of two entries of one schedule family, the one with the smaller
\* timestamp has the byte-lexicographically smaller key, whatever the
\* RawPrefixes, so that a forward scan of the family visits the entries in
\* increasing timestamp order.
TimeKeysOrderPreserving ==
  \A e1, e2 \in ExpiryKeys(db) \cup PruningKeys(db) :
    (e1[1] = e2[1] /\ TimeOf(e1) < TimeOf(e2)) => Compare(e1, e2) < 0

\* a call of op on a namespace that has no PrefixInfo record fails with the
\* prefix-missing error and leaves the store as it is
MissingPrefixStep(op) ==
  (last'.op = op /\ ~IsStored(db, last'.pfx))
    => (last'.err = "ErrPrefixMissing" /\ db' = db)

\* the part of C14 about the two writers: PutPrefixKey and DeletePrefixKey
\* fail with the prefix-missing error and write nothing
WritersFailOnMissingPrefix ==
  [][MissingPrefixStep("PutValue") /\ MissingPrefixStep("DeleteValue")]_vars

\* a put was refused on a namespace without a record while value records of
\* an earlier incarnation are still stored
WritersFailOnMissingPrefixWitness ==
  /\ last.op = "PutValue"
  /\ last.err = "ErrPrefixMissing"
  /\ ValueKeys(db) # {}

\* C14: putValue, deleteValue and getValue each fail with the
\* prefix-missing error when the namespace has no PrefixInfo record, and
\* none of them writes a value record in that case.
ValueCallsFailOnMissingPrefix ==
  [][/\ MissingPrefixStep("PutValue")
     /\ MissingPrefixStep("DeleteValue")
     /\ MissingPrefixStep("GetValue")]_vars

\* the first n elements of a sequence (all of it when n = 0 or n >= Len)
Truncate(q, n) == IF n > 0 /\ n < Len(q) THEN SubSeq(q, 1, n) ELSE q

\* what a Range call with an end bound is to return on store d: the value
\* records of the namespace with startKey <= k < end, ascending, without
\* the (tag, RawPrefix) header, cut to the first limit when limit > 0
RangeExpected(d, prefix, key, withPrefix, end, limit) ==
  LET rprefix == Stored(d, prefix).RawPrefix
      startKey == PrefixValueKey(rprefix, key)
      endKey == IF withPrefix THEN GetRangeEnd(startKey)
                ELSE PrefixValueKey(rprefix, end)
      inRange == {k \in ValuesUnder(d, rprefix) :
                    Compare(startKey, k) <= 0 /\ Compare(k, endKey) < 0}
      keys == SetToSeq(inRange)
      all == [j \in 1..Len(keys) |->
                [Key |-> SubSeq(keys[j], 2 + shortIDLen + 1 + 1, Len(keys[j])),
                 Value |-> d[keys[j]]]]
  IN Truncate(all, limit)

\* the call being made is a Range with an end bound
BoundedRangeCall == last'.op = "Range" /\ (last'.withPrefix \/ Len(last'.end) > 0)

\* what C15 asks of the call
BoundedRangeStep ==
  /\ IsStored(db, last'.pfx) =>
       /\ last'.err = "nil"
       /\ last'.ret = <<RangeExpected(db, last'.pfx, last'.key, last'.withPrefix,
                                      last'.end, last'.limit)>>
  /\ ~IsStored(db, last'.pfx) => last'.err = "ErrPrefixMissing"

\* C15: Range with an end bound (WithPrefix or WithRangeEnd) on an existing
\* namespace returns exactly the value records with startKey <= k < end, in
\* ascending order, cut to the first n under WithRangeLimit(n), header
\* stripped, for every startKey and end, also end <= startKey; on a
\* namespace without PrefixInfo it fails with PrefixMissing.
RangeWithEndExact == [][BoundedRangeCall => BoundedRangeStep]_vars

\* the same for the calls whose end bound lies after the start key
RangeWithEndAfterStart ==
  [][(BoundedRangeCall /\ (last'.withPrefix \/ Compare(last'.key, last'.end) < 0))
       => BoundedRangeStep]_vars

\* a bounded scan has just returned two records
RangeWithEndAfterStartWitness ==
  /\ last.op = "Range"
  /\ last.err = "nil"
  /\ last.withPrefix \/ Compare(last.key, last.end) < 0
  /\ Len(last.ret[1]) = 2

\* C16: a Move with an empty destination fails NonActionable; a Move with a
\* destination on a well-formed prefix that has no PrefixInfo fails
\* SpaceMissing; a Move with a destination and a delimiter in the prefix
\* text fails the content validation, whoever the sender is; in each of
\* these cases the store is unchanged.
MoveErrorOutcomes ==
  [][last'.op = "Move"
       => /\ (last'.to = ZeroAddress)
               => (last'.err = "ErrNonActionable" /\ db' = db)
          /\ (last'.to # ZeroAddress /\ last'.pfx = BadPrefix)
               => (last'.err = "ErrInvalidContents" /\ db' = db)
          /\ (last'.to # ZeroAddress /\ last'.pfx \in GoodPrefixes
                /\ ~IsStored(db, last'.pfx))
               => (last'.err = "ErrSpaceMissing" /\ db' = db)]_vars

\* the owner of "f" has just been refused the transfer of "f/"
MoveErrorOutcomesWitness ==
  /\ last.op = "Move"
  /\ last.err = "ErrInvalidContents"
  /\ last.to # ZeroAddress
  /\ \E p \in GoodPrefixes : IsStored(db, p) /\ Stored(db, p).Owner = last.snd

\* the sum of the unit costs of the value records ks of store d
RECURSIVE SumUnits(_, _)
SumUnits(d, ks) ==
  IF ks = {} THEN 0
  ELSE LET k == CHOOSE x \in ks : TRUE
       IN Units(d[k]) + SumUnits(d, ks \ {k})

\* the Units of every stored PrefixInfo is non-negative and is the sum of
\* the unit costs of the value records under its RawPrefix
UnitsAccounted(d) ==
  \A k \in InfoKeys(d) :
    /\ d[k].Units >= 0
    /\ d[k].Units = SumUnits(d, ValuesUnder(d, d[k].RawPrefix))

\* the transactions of the following block are executed at block time t;
\* nothing but transactions runs (no scheduler, no pruner)
BlockTime(t) ==
  /\ last.op = "idle"
  /\ now < t
  /\ now' = t
  /\ UNCHANGED <<db, last>>

TxNext ==
  \/ \E p \in GoodPrefixes \cup {AddrPrefix}, s \in Senders : Claim(p, s)
  \/ \E p \in GoodPrefixes, s \in Senders, k \in Keys, v \in Values : Set(p, s, k, v)
  \/ \E t \in Times : BlockTime(t)
  \/ Return

\* sequences of Claim, Set and Delete transactions only
TxSpec == Init /\ [][TxNext]_vars

\* C17: after any sequence of Claim, Set (new key or overwrite) and Delete
\* transactions the Units of every stored PrefixInfo is non-negative and
\* equals the sum of the unit costs of the value records stored under its
\* RawPrefix.
UnitsInvariant == UnitsAccounted(db)

\* the same in the states no transaction has panicked in
UnitsInvariantUnlessPanic == (last.err # "panic") => UnitsAccounted(db)

\* C18: with non-decreasing block times every stored PrefixInfo satisfies
\* Created <= LastUpdated <= Expiry after any sequence of Claim, Set/Delete
\* and Move transactions.
TimestampsOrdered ==
  \A k \in InfoKeys(db) :
    /\ db[k].Created <= db[k].LastUpdated
    /\ db[k].LastUpdated <= db[k].Expiry

\* a Set in a later block than the claim has re-indexed the lease
TimestampsOrderedWitness ==
  /\ last.op = "Set"
  /\ last.err = "nil"
  /\ IsStored(db, last.pfx)
  /\ Stored(db, last.pfx).Created < Stored(db, last.pfx).LastUpdated
  /\ Stored(db, last.pfx).LastUpdated = now

\* the same after a transfer
TimestampsOrderedAfterMove ==
  /\ last.op = "Move"
  /\ last.err = "nil"
  /\ \E k \in InfoKeys(db) : db[k].Created < now /\ db[k].Expiry >= now

\* C19: when ExpireNext or PutPrefixInfo returns a store error none of that
\* call's writes is applied: the store is as before the call.
MaintenanceAtomicOnStoreError ==
  [][(last'.op \in {"Expire", "PutInfo"} /\ last'.err = "ErrClosed") => db' = db]_vars

\* with no write refused the calls are ExpireNext and PutPrefixInfo themselves
FaultFreeAgrees ==
  [][(last'.op = "Expire" /\ last'.fail = 0)
       => /\ db' = ExpireNext(db, last'.parent, last'.cur).db
          /\ last'.err = ExpireNext(db, last'.parent, last'.cur).err]_vars

\* C20: ExpireNext(parentTime, currentTime) deletes the PrefixInfo of a prefix
\* only if the Expiry stored in that record is < currentTime at scan time; a
\* record written by a re-claim or re-indexed by a Set is never deleted
\* because of a schedule entry of an earlier expiry or incarnation.
ExpireNeverDemotesLive ==
  [][last'.op = "Expire"
       => \A k \in InfoKeys(db) \ InfoKeys(db') : db[k].Expiry < last'.cur]_vars

\* the same for the records whose own schedule entry was the one visited
ExpireOwnEntryNeverDemotesLive ==
  [][last'.op = "Expire"
       => \A k \in InfoKeys(db) \ InfoKeys(db') :
            PrefixExpiryKey(db[k].Expiry, db[k].RawPrefix) \in last'.done
              => db[k].Expiry < last'.cur]_vars

\* the same for the entries left behind by an earlier expiry or incarnation
ExpireStaleEntryNeverDemotesLive ==
  [][last'.op = "Expire"
       => \A k \in InfoKeys(db) \ InfoKeys(db') :
            PrefixExpiryKey(db[k].Expiry, db[k].RawPrefix) \notin last'.done
              => db[k].Expiry < last'.cur]_vars

\* a Claim that has overwritten a stored record whose lease had lapsed
ReclaimOverLapsedStep ==
  /\ last'.op = "Claim"
  /\ last'.err = "nil"
  /\ IsStored(db, last'.pfx)
  /\ Stored(db, last'.pfx).Expiry < now

\* the expiry-schedule entries whose value is the prefix text p
EntriesOf(d, p) == {k \in ExpiryKeys(d) : d[k] = p}

\* C21: when a Claim overwrites a PrefixInfo whose lease has lapsed and which
\* ExpireNext has not demoted, the schedule entry (old Expiry, old RawPrefix)
\* is no longer in the store after the Claim and the only schedule entry for
\* the prefix text is the one of the new record.
ReclaimRetiresOldEntry ==
  [][ReclaimOverLapsedStep
       => /\ PrefixExpiryKey(Stored(db, last'.pfx).Expiry,
                             Stored(db, last'.pfx).RawPrefix) \notin DOMAIN db'
          /\ EntriesOf(db', last'.pfx)
               = {PrefixExpiryKey(Stored(db', last'.pfx).Expiry,
                                  Stored(db', last'.pfx).RawPrefix)}]_vars

\* the re-claim does schedule the new record
ReclaimSchedulesNewEntry ==
  [][ReclaimOverLapsedStep
       => PrefixExpiryKey(Stored(db', last'.pfx).Expiry,
                          Stored(db', last'.pfx).RawPrefix) \in EntriesOf(db', last'.pfx)]_vars

\* the value records of the store, keys and contents
ValueRecords(d) == [k \in ValueKeys(d) |-> d[k]]

\* C22: for each expiry-schedule entry (t, R) -> prefix that ExpireNext
\* processes, after the call the entry (t, R) is absent, the PrefixInfo of
\* that prefix is absent and a pruning-schedule entry keyed by the same
\* (t, R) is present; ExpireNext deletes and writes no value record.
DemotionEffectsAndFrame ==
  [][last'.op = "Expire"
       => /\ \A e \in last'.done :
               /\ e \in ExpiryKeys(db)
               /\ e \notin DOMAIN db'
               /\ ~IsStored(db', db[e])
               /\ PrefixPruningKey(TimeOf(e), RawOf(e)) \in DOMAIN db'
          /\ ValueRecords(db') = ValueRecords(db)]_vars

\* a demotion of a namespace that holds a value
DemotionEffectsAndFrameWitness ==
  /\ last.op = "Expire"
  /\ last.err = "nil"
  /\ \E e \in last.done : ValuesUnder(db, RawOf(e)) # {}

\* ExpireNext touches nothing but what it processes: the entries it did not
\* visit, the other records and the earlier pruning entries stay
DemotionTouchesNothingElse ==
  [][last'.op = "Expire"
       => /\ ExpiryKeys(db') = ExpiryKeys(db) \ last'.done
          /\ PruningKeys(db) \subseteq PruningKeys(db')
          /\ \A k \in InfoKeys(db) \ InfoKeys(db') :
               \E e \in last'.done : db[e] = PrefixOf(k)]_vars

(***************************************************************************)
(* Lease accounting.  A claim stores Units = 0, so the first Set of a      *)
(* namespace always finds no funded time; for the recomputation to have    *)
(* time to spread, the registry must hold a record with Units > 0 and      *)
(* Expiry > LastUpdated.  Renew is the registry put of a claim-renewal: it *)
(* rewrites the Expiry of the stored record to blockTime + ClaimReward and *)
(* re-indexes it, retiring the entry at the previous Expiry.               *)
(***************************************************************************)
Renew(prefix) ==
  /\ last.op = "idle"
  /\ IsStored(db, prefix)
  /\ LET i == Stored(db, prefix)
     IN /\ i.Expiry >= now
        /\ i.Expiry < now + ClaimReward
        /\ db' = PutPrefixInfo(db, prefix, [i EXCEPT !.Expiry = now + ClaimReward],
                               i.Expiry)
  /\ last' = [Idle EXCEPT !.op = "Renew", !.pfx = prefix]
  /\ UNCHANGED now

LeaseNext ==
  \/ \E p \in GoodPrefixes, s \in Senders : Claim(p, s)
  \/ \E p \in GoodPrefixes, s \in Senders, k \in GoodKeys, v \in Values : Set(p, s, k, v)
  \/ \E p \in GoodPrefixes : Renew(p)
  \/ \E t \in Times : BlockTime(t)
  \/ Return

LeaseSpec == Init /\ [][LeaseNext]_vars

\* a Set or Delete that returned nil and left the namespace with Units > 0
RecomputedStep ==
  /\ last'.op = "Set"
  /\ last'.err = "nil"
  /\ IsStored(db, last'.pfx)
  /\ IsStored(db', last'.pfx)
  /\ Stored(db', last'.pfx).Units > 0

\* C23: a successful Set or Delete at blockTime on a PrefixInfo (Expiry,
\* LastUpdated, Units) that results in Units' > 0 stores LastUpdated' =
\* blockTime and Expiry' = blockTime + floor(((Expiry - LastUpdated) * Units)
\* / Units'), so the funded unit-seconds never grow, and the re-index retires
\* the schedule entry at the previous Expiry.
LeaseRecomputation ==
  [][RecomputedStep
       => LET old == Stored(db, last'.pfx)
              new == Stored(db', last'.pfx)
              funded == (old.Expiry - old.LastUpdated) * old.Units
          IN /\ new.LastUpdated = now
             /\ new.Expiry = now + (funded \div new.Units)
             /\ (new.Expiry - new.LastUpdated) * new.Units <= funded
             /\ PrefixExpiryKey(new.Expiry, new.RawPrefix) \in DOMAIN db'
             /\ new.Expiry # old.Expiry
                  => PrefixExpiryKey(old.Expiry, old.RawPrefix) \notin DOMAIN db']_vars

\* a write has spread funded time (not a whole claim window) over more than
\* one unit
LeaseRecomputationWitness ==
  /\ last.op = "Set"
  /\ last.err = "nil"
  /\ IsStored(db, last.pfx)
  /\ Stored(db, last.pfx).Units > 1
  /\ Stored(db, last.pfx).Expiry > now
  /\ (Stored(db, last.pfx).Expiry - now) * Stored(db, last.pfx).Units
       \notin {ClaimReward * u : u \in 0..4}

\* what a Range call without an end bound is to return on store d: the
\* value records of the namespace with key >= startKey, ascending, without
\* the (tag, RawPrefix) header, cut to the first limit
RangeFromExpected(d, prefix, key, limit) ==
  LET rprefix == Stored(d, prefix).RawPrefix
      startKey == PrefixValueKey(rprefix, key)
      inRange == {k \in ValuesUnder(d, rprefix) : Compare(startKey, k) <= 0}
      keys == SetToSeq(inRange)
      all == [j \in 1..Len(keys) |->
                [Key |-> SubSeq(keys[j], 2 + shortIDLen + 1 + 1, Len(keys[j])),
                 Value |-> d[keys[j]]]]
  IN Truncate(all, limit)

\* the call being made is a Range with a limit and no end bound, on an
\* existing namespace
UnboundedRangeCall ==
  /\ last'.op = "Range"
  /\ ~last'.withPrefix
  /\ Len(last'.end) = 0
  /\ last'.limit >= 1
  /\ IsStored(db, last'.pfx)

\* C24: with neither WithPrefix nor WithRangeEnd, Range(prefix, startKey,
\* WithRangeLimit(n)) on an existing namespace returns, in ascending key
\* order, the first n value records of the namespace with key >= startKey
\* (all of them when fewer exist), and no record of another namespace or
\* key family.
RangeWithoutEnd ==
  [][UnboundedRangeCall
       => /\ last'.err = "nil"
          /\ last'.ret = <<RangeFromExpected(db, last'.pfx, last'.key, last'.limit)>>]_vars

\* what the call does return: the record stored at startKey itself, if any
RangeWithoutEndStartOnly ==
  [][UnboundedRangeCall
       => LET k == PrefixValueKey(Stored(db, last'.pfx).RawPrefix, last'.key)
          IN /\ last'.err = "nil"
             /\ last'.ret = <<IF k \in DOMAIN db
                               THEN <<[Key |-> last'.key, Value |-> db[k]]>>
                               ELSE <<>> >>]_vars

(***************************************************************************)
(* Garbage collection under a scheduler that keeps running.  The ordering  *)
(* layer accepts blocks at advancing block times and calls ExpireNext from *)
(* the previous boundary (the block time so far) to the new block time;    *)
(* it calls PruneNext with a limit >= 1 again and again.  Transactions     *)
(* arrive in between, with no obligation to.                               *)
(***************************************************************************)
\* the last block time of the run: no lease lapses after it
GcHorizon == MaxTick * TimeStep

AdvanceBlock == \E t \in Times : now < t /\ Expire(now, t)

PruneCall == \E limit \in 1..MaxLimit : Prune(limit)

GcNext ==
  \/ \E p \in GoodPrefixes, s \in Senders : Claim(p, s)
  \/ \E p \in GoodPrefixes, s \in Senders, k \in GoodKeys, v \in {Rep(0), Rep(1)} :
        Set(p, s, k, v)
  \/ AdvanceBlock
  \/ PruneCall
  \/ Return

\* the process has ended in a panic: no further call is made
Ended == last.err = "panic"

\* Calls return (weak fairness of Return).  The ordering layer keeps
\* accepting blocks: AdvanceBlock can be taken whenever no other call is in
\* progress and the last block is not yet accepted, and it is taken again
\* and again, so the last block is accepted.  It keeps pruning: PruneCall
\* can be taken whenever no call is in progress, and it is taken again and
\* again, so a PruneNext call is in progress infinitely often.  (Strong
\* fairness of the two actions, stated on the states they lead to.)
GcSpec ==
  /\ Init
  /\ [][GcNext]_vars
  /\ WF_vars(Return)
  /\ []<>(Ended \/ now = GcHorizon)
  /\ []<>(Ended \/ last.op = "Prune")

\* every lapsed namespace is demoted and pruned: no stored record has lapsed,
\* the pruning queue is empty and every value record belongs to a stored
\* record
Collected ==
  /\ \A k \in InfoKeys(db) : db[k].Expiry >= now
  /\ PruningKeys(db) = {}
  /\ \A v \in ValueKeys(db) :
       \E k \in InfoKeys(db) : v \in ValuesUnder(db, db[k].RawPrefix)

\* C25: if the ordering layer keeps calling ExpireNext with advancing block
\* times, each call starting at the previous call's boundary, and keeps
\* calling PruneNext with limit >= 1, every namespace whose lease lapses is
\* eventually demoted and pruned, and when no more leases lapse the pruning
\* queue eventually becomes empty (unless a transaction ends the process).
EventualGarbageCollection ==
  <>[](Ended \/ (now = GcHorizon /\ Collected))

\* the pruning queue is eventually empty for good
PruningQueueDrains ==
  <>[](Ended \/ (now = GcHorizon /\ PruningKeys(db) = {}))

\* what is demoted is eventually pruned: no value record is left under the
\* RawPrefix of a namespace that was demoted and not claimed again
DemotedArePruned ==
  <>[](Ended
        \/ \A v \in ValueKeys(db) :
             \E e \in ExpiryKeys(db) : v \in ValuesUnder(db, RawOf(e)))

====
